---- MODULE Spec2Model ----
(***************************************************************************)
(* The asynchronous ingestion tracker of scan-server: User::store hands a  *)
(* scan to PaperlessClient::put, which uploads it and spawns a background  *)
(* task that polls the backend job (wait_for_task), fans out over the      *)
(* jobs of a split (wait_for_split_processing), patches custom fields on   *)
(* every created document and logs the final result.                       *)
(*                                                                         *)
(* Strings that the code inspects (file names, result messages) are        *)
(* sequences of tokens, so that starts_with and contains are computed.     *)
(* Option<T> is a sequence of length 0 (None) or 1 (Some).                 *)
(* The paperless backend and telegram are the environment: every reply is  *)
(* drawn from a bounded set in the next-state relation.                    *)
(***************************************************************************)
EXTENDS Integers, Sequences, FiniteSets, TLC

\* ------------------------------------------------------------- bounds
\* Number of job handles the backend can hand out.
NumTasks == 3
\* Number of prompt "still running" replies the backend gives per job in Spec.
MaxPolls == 2
\* Largest duration (seconds) of one status request in SpecPoller.
MaxLatency == 2

Handles == 1..NumTasks
\* The document the backend creates for job h.
DocOf(h) == <<"doc", h>>
DocIds == {DocOf(h) : h \in Handles}
Titles == {<<"scan-1">>, <<"scan-2">>}
Title1 == <<"scan-1">>

\* ------------------------------------------------------------- values
None == <<>>
Some(x) == <<x>>

\* UnwrapOrDefault that renders an absent value the way {:?} does.
UnwrapOrDebug(o, d) == IF o = None THEN <<"None">> ELSE o[1]

UnwrapOrDefault(o, d) == IF o = None THEN d ELSE o[1]

\* Result<(), Box<dyn Error>>
Ok == [ok |-> TRUE, msg |-> <<>>]
Err(m) == [ok |-> FALSE, msg |-> m]
NoResult == [ok |-> FALSE, msg |-> <<"<pending>">>]

\* enum TaskResult
Success(d) == [tag |-> "Success", doc |-> d, msg |-> <<>>]
Failure(m) == [tag |-> "Failure", doc |-> "", msg |-> m]
Split == [tag |-> "Split", doc |-> "", msg |-> <<>>]

SplitMarker == "splitting complete"
TimeoutMsg == <<"Timeout while waiting for processing.">>
EmptyMsg == <<"Received empty response to task query">>
ReqwestMsg == <<"reqwest::Error">>
MissingDocMsg == <<"Missing document ID on task">>
UnknownStatusMsg(s) == <<"Unknown processing status: ", s>>

\* Duration::from_secs(5), Duration::from_secs(300)
PollInterval == 5
PollTimeout == 300

\* str::contains / str::starts_with on token sequences
Contains(s, marker) == \E i \in 1..Len(s) : s[i] = marker
StartsWith(s, p) == Len(s) >= Len(p) /\ SubSeq(s, 1, Len(p)) = p

\* format!("EpicPrinter-{title}")
FileNamePrefix(title) == <<"EpicPrinter-">> \o title

\* ------------------------------------------------------------- Task
\* #[serde(rename_all = "UPPERCASE")] enum TaskStatus, with the untagged Other
TaskStatusFromStr(s) ==
  IF s = "PENDING" THEN [tag |-> "Pending", raw |-> ""]
  ELSE IF s = "STARTED" THEN [tag |-> "Started", raw |-> ""]
  ELSE IF s = "FAILURE" THEN [tag |-> "Failure", raw |-> ""]
  ELSE IF s = "SUCCESS" THEN [tag |-> "Success", raw |-> ""]
  ELSE [tag |-> "Other", raw |-> s]

\* #[derive(Deserialize)] struct Task: the JSON object of the backend to a Task
DeserializeTask(j) ==
  [uuid |-> j.task_id,
   file_name |-> j.task_file_name,
   status |-> IF j.status = None THEN None ELSE Some(TaskStatusFromStr(j.status[1])),
   message |-> j.result,
   related_document |-> j.related_document]

\* Option<TaskResult>, or the panic that Task::result raises
RNone == [kind |-> "None", tag |-> "", doc |-> "", msg |-> <<>>]
RSome(r) == [kind |-> "Some", tag |-> r.tag, doc |-> r.doc, msg |-> r.msg]
RPanic(m) == [kind |-> "Panic", tag |-> "", doc |-> "", msg |-> m]

\* Task::result that looks for the split marker before it looks at the status.
TaskResultOfMessageFirst(task) ==
  LET message == UnwrapOrDefault(task.message, <<>>) IN
  IF task.status = None THEN RNone
  ELSE LET status == task.status[1] IN
    IF Contains(message, SplitMarker) THEN RSome(Split)
    ELSE IF status.tag \in {"Started", "Pending"} THEN RNone
    ELSE IF status.tag = "Success" /\ task.related_document # None
      THEN RSome(Success(task.related_document[1]))
    ELSE IF status.tag = "Failure" THEN RSome(Failure(message))
    ELSE IF status.tag = "Success" THEN RPanic(MissingDocMsg)
    ELSE RPanic(UnknownStatusMsg(status.raw))

\* Task::result with the two Success arms that have a guard in the other order.
TaskResultOfDocumentFirst(task) ==
  LET message == UnwrapOrDefault(task.message, <<>>) IN
  IF task.status = None THEN RNone
  ELSE LET status == task.status[1] IN
    IF status.tag \in {"Started", "Pending"} THEN RNone
    ELSE IF status.tag = "Success" /\ task.related_document # None
      THEN RSome(Success(task.related_document[1]))
    ELSE IF status.tag = "Success" /\ Contains(message, SplitMarker) THEN RSome(Split)
    ELSE IF status.tag = "Failure" THEN RSome(Failure(message))
    ELSE IF status.tag = "Success" THEN RPanic(MissingDocMsg)
    ELSE RPanic(UnknownStatusMsg(status.raw))

\* Task::result that takes a record without a status for a finished one.
TaskResultOfAbsentAsSuccess(task) ==
  LET message == UnwrapOrDefault(task.message, <<>>)
      status == IF task.status = None THEN [tag |-> "Success", raw |-> ""]
                ELSE task.status[1] IN
  IF status.tag \in {"Started", "Pending"} THEN RNone
  ELSE IF status.tag = "Success" /\ Contains(message, SplitMarker) THEN RSome(Split)
  ELSE IF status.tag = "Success" /\ task.related_document # None
    THEN RSome(Success(task.related_document[1]))
  ELSE IF status.tag = "Failure" THEN RSome(Failure(message))
  ELSE IF status.tag = "Success" THEN RPanic(MissingDocMsg)
  ELSE RPanic(UnknownStatusMsg(status.raw))

\* Task::result
TaskResultOf(task) ==
  LET message == UnwrapOrDefault(task.message, <<>>) IN
  IF task.status = None THEN RNone
  ELSE LET status == task.status[1] IN
    IF status.tag \in {"Started", "Pending"} THEN RNone
    ELSE IF status.tag = "Success" /\ Contains(message, SplitMarker) THEN RSome(Split)
    ELSE IF status.tag = "Success" /\ task.related_document # None
      THEN RSome(Success(task.related_document[1]))
    ELSE IF status.tag = "Failure" THEN RSome(Failure(message))
    ELSE IF status.tag = "Success" THEN RPanic(MissingDocMsg)
    ELSE RPanic(UnknownStatusMsg(status.raw))

\* ------------------------------------------------------------- state
VARIABLES
  customFields,  \* PaperlessClient.custom_fields.custom_fields
  telegram,      \* User.telegram is Some
  upload,        \* per scan: the task spawned by store_in_background, inside put
  tracker,       \* per scan: the task spawned by put (wait_for_processing), with
                 \* the number of its discovery requests (listings), the job
                 \* list the request was answered (listed), the jobs the
                 \* backend got for the scan after that answer (late)
                 \* and how its PATCH request was answered (patched)
  split,         \* per handle: the JoinSet task running wait_for_split_processing,
                 \* with how its PATCH request was answered (patched)
  poller,        \* per handle: the wait_for_task call on that handle, with what
                 \* its last status request was answered (got) and the job
                 \* record in the answer (seen)
  attrCalls,     \* per handle: document ids set_document_attributes was called with
  patches,       \* per document id: PATCH requests sent
  sent,          \* messages handed to TelegramClient::send
  errorLog       \* per scan: error! lines of the tracking task

vars == <<customFields, telegram, upload, tracker, split, poller,
          attrCalls, patches, sent, errorLog>>

NoTitle == <<>>

NoReply == [kind |-> "none", body |-> None]
IdleUpload == [pc |-> "idle", requests |-> 0, reply |-> NoReply, result |-> NoResult]
IdleTracker ==
  [pc |-> "none", root |-> 0, prefix |-> <<>>, listings |-> 0, listed |-> None,
   late |-> {}, children |-> {},
   completed |-> <<>>, taken |-> 0, patched |-> "none", result |-> NoResult]
IdleSplit == [pc |-> "none", owner |-> NoTitle, patched |-> "none", result |-> NoResult]
NoRet == [kind |-> "none", tag |-> "", doc |-> "", msg |-> <<>>]
IdlePoller ==
  [pc |-> "idle", interval |-> 0, timeout |-> 0, elapsed |-> 0,
   lastLatency |-> 0, fetches |-> 0, got |-> "none", seen |-> None, ret |-> NoRet]

\* let start = Instant::now()
StartPoller(interval, timeout) ==
  [pc |-> "check", interval |-> interval, timeout |-> timeout, elapsed |-> 0,
   lastLatency |-> 0, fetches |-> 0, got |-> "none", seen |-> None, ret |-> NoRet]

RetOk(r) == [kind |-> "Ok", tag |-> r.tag, doc |-> r.doc, msg |-> r.msg]
RetErr(m) == [kind |-> "Err", tag |-> "", doc |-> "", msg |-> m]
RetPanic(m) == [kind |-> "Panic", tag |-> "", doc |-> "", msg |-> m]

\* Returned that records the result but goes on to the next loop iteration.
ReturnedKeepsPolling(p, ret) == [p EXCEPT !.pc = "check", !.ret = ret]

\* The call has returned: what belongs to the running call (the time since
\* start, the count of its requests) is gone, the last record and the result stay.
Returned(p, ret) ==
  [p EXCEPT !.pc = "done", !.elapsed = 0, !.lastLatency = 0, !.fetches = 0, !.ret = ret]

Configs == {<<>>, <<[field |-> 1, value |-> 1]>>}

Init ==
  /\ customFields \in Configs
  /\ telegram \in BOOLEAN
  /\ upload = [t \in Titles |-> IdleUpload]
  /\ tracker = [t \in Titles |-> IdleTracker]
  /\ split = [h \in Handles |-> IdleSplit]
  /\ poller = [h \in Handles |-> IdlePoller]
  /\ attrCalls = [h \in Handles |-> <<>>]
  /\ patches = [d \in DocIds |-> 0]
  /\ sent = <<>>
  /\ errorLog = [t \in Titles |-> <<>>]

\* ------------------------------------------------------------- replies
\* Bodies the backend can answer the upload with: a job handle, or not one.
UploadReplies ==
  {[kind |-> k, body |-> None] : k \in {"transport", "status", "ok"}}
    \cup {[kind |-> k, body |-> Some(h)] : k \in {"status", "ok"}, h \in Handles}

RawStatuses == {None} \cup {Some(s) : s \in {"PENDING", "STARTED", "FAILURE", "SUCCESS", "REVOKED"}}
RawMessages == {None, Some(<<"ocr error">>), Some(<<"Barcode ", SplitMarker>>)}
RawDocs(h) == {None, Some(DocOf(h))}

TaskJson(h, name, status, result, doc) ==
  [task_id |-> h, task_file_name |-> name, status |-> status,
   result |-> result, related_document |-> doc]

RawNames == {None, Some(FileNamePrefix(Title1) \o <<".pdf">>)}

\* Every job record of handle h the resolver is tried on.
RawTasks(h) ==
  {TaskJson(h, n, s, m, d) :
     n \in RawNames, s \in RawStatuses, m \in RawMessages, d \in RawDocs(h)}

\* The job records the backend of Spec reports: one or two for each way
\* Task::result can go.
ReportedTasks(h) ==
  {TaskJson(h, None, Some("PENDING"), None, None),
   TaskJson(h, None, Some("SUCCESS"), Some(<<"Success. New document id 1 created">>), Some(DocOf(h))),
   TaskJson(h, None, Some("SUCCESS"), Some(<<"Barcode ", SplitMarker>>), None),
   TaskJson(h, None, Some("SUCCESS"), None, None),
   TaskJson(h, None, Some("FAILURE"), None, None),
   TaskJson(h, None, Some("FAILURE"), Some(<<"ocr error">>), None),
   TaskJson(h, None, Some("REVOKED"), None, None)}

\* Answers to GET /api/tasks/?task_id=h
FetchReplies(h) ==
  {[kind |-> k, body |-> <<>>] : k \in {"transport", "status", "decode"}}
    \cup {[kind |-> "ok", body |-> <<>>]}
    \cup {[kind |-> "ok", body |-> <<j>>] : j \in ReportedTasks(h)}

StillRunning(reply) ==
  /\ reply.kind = "ok"
  /\ reply.body # <<>>
  /\ TaskResultOf(DeserializeTask(reply.body[Len(reply.body)])).kind = "None"

\* File names the backend reports for the jobs of scan t.
FileNames(t) ==
  {None,
   Some(FileNamePrefix(t) \o <<".pdf">>),
   Some(FileNamePrefix(t) \o <<"_document_1", ".pdf">>),
   Some(<<"EpicPrinter-">>),
   Some(<<"EpicPrinter-", "other", ".pdf">>)}

RECURSIVE ListOf(_, _, _)
\* The listed jobs in handle order: f maps a handle to <<>> (not listed) or <<name>>.
ListOf(f, h, n) ==
  IF h > n THEN <<>>
  ELSE (IF f[h] = <<>> THEN <<>>
        ELSE <<TaskJson(h, f[h][1], Some("SUCCESS"), None, None)>>) \o ListOf(f, h + 1, n)

\* Answers to GET /api/tasks/
TasksReplies(t) ==
  {[kind |-> k, body |-> <<>>] : k \in {"transport", "status", "decode"}}
    \cup {[kind |-> "ok", body |-> ListOf(f, 1, NumTasks)] :
            f \in [Handles -> {<<>>} \cup {<<n>> : n \in FileNames(t)}]}

\* ------------------------------------------------------------- User::store
\* telegram.send(format!("... File: <i>{id}</i> ... {err} ..."))
Notification(id, err) == [file |-> id, err |-> err]

\* User::store -> store_in_background -> PaperlessClient::put up to the upload request
Store(t) ==
  /\ upload[t].pc = "idle"
  /\ upload' = [upload EXCEPT ![t].pc = "uploading", ![t].requests = @ + 1]
  /\ UNCHANGED <<customFields, telegram, tracker, split, poller, attrCalls,
                 patches, sent, errorLog>>

\* UploadId without error_for_status(): any body that parses is taken as the handle.
UploadIdNoStatusCheck(reply) == reply.body

\* .send().await?.error_for_status()?.json::<Uuid>().await?
UploadId(reply) ==
  IF reply.kind # "ok" \/ reply.body = None THEN None ELSE reply.body

\* tokio::spawn(wait_for_processing(upload_id, file_name_prefix)) in put
SpawnTracking(t, id) ==
  /\ tracker' = [tracker EXCEPT ![t] =
       [IdleTracker EXCEPT !.pc = "root", !.root = id, !.prefix = FileNamePrefix(t)]]
  /\ poller' = [poller EXCEPT ![id] = StartPoller(PollInterval, PollTimeout)]

\* The rest of put and the match of store_in_background on its result.
PutReply(t, reply) ==
  /\ upload[t].pc = "uploading"
  /\ LET id == UploadId(reply) IN
     IF id = None
     THEN /\ upload' = [upload EXCEPT ![t].pc = "done", ![t].reply = reply,
                                      ![t].result = Err(ReqwestMsg)]
          /\ sent' = IF telegram THEN Append(sent, Notification(t, ReqwestMsg)) ELSE sent
          /\ UNCHANGED <<tracker, poller>>
     ELSE /\ poller[id[1]].pc = "idle"
          /\ upload' = [upload EXCEPT ![t].pc = "done", ![t].reply = reply,
                                      ![t].result = Ok]
          /\ SpawnTracking(t, id[1])
          /\ UNCHANGED sent
  /\ UNCHANGED <<customFields, telegram, split, attrCalls, patches, errorLog>>

\* ------------------------------------------------------------- wait_for_task
\* WithinDeadline of a loop that tests the deadline at its end: the first
\* iteration runs untested.
WithinDeadlineAfterFirst(p) == p.fetches = 0 \/ p.elapsed < p.timeout

\* WithinDeadline with <= for <: one more iteration at the deadline itself.
WithinDeadlineInclusive(p) == p.elapsed <= p.timeout

\* while start.elapsed() < timeout
WithinDeadline(p) == p.elapsed < p.timeout

\* sleep(interval).await
Sleep(p, latency) ==
  [p EXCEPT !.pc = "check", !.elapsed = @ + latency + p.interval, !.lastLatency = latency]

\* What a status request was answered: no usable response, an empty list, or
\* a list with a record.
ReplyKind(reply) ==
  IF reply.kind # "ok" THEN "error" ELSE IF reply.body = <<>> THEN "empty" ELSE "record"

\* FetchTask that takes an empty list for a job that has not reported yet.
FetchTaskEmptyAsPending(reply) ==
  IF reply.kind # "ok" THEN [ok |-> FALSE, msg |-> ReqwestMsg, task |-> None]
  ELSE IF reply.body = <<>>
    THEN [ok |-> TRUE, msg |-> <<>>,
          task |-> Some([uuid |-> 0, file_name |-> None, status |-> None,
                         message |-> None, related_document |-> None])]
  ELSE [ok |-> TRUE, msg |-> <<>>,
        task |-> Some(DeserializeTask(reply.body[Len(reply.body)]))]

\* fetch_task: ...json::<Vec<Task>>().await?.pop().ok_or("Received empty response ...")
FetchTask(reply) ==
  IF reply.kind # "ok" THEN [ok |-> FALSE, msg |-> ReqwestMsg, task |-> None]
  ELSE IF reply.body = <<>> THEN [ok |-> FALSE, msg |-> EmptyMsg, task |-> None]
  ELSE [ok |-> TRUE, msg |-> <<>>,
        task |-> Some(DeserializeTask(reply.body[Len(reply.body)]))]

\* ------------------------------------------------------------- set_document_attributes
\* SkipsPatch without the early return: the request is sent for every field set.
SkipsPatchNever(fields) == FALSE

\* SkipsPatch that returns early for every field set.
SkipsPatchAlways(fields) == TRUE

\* if self.custom_fields.custom_fields.is_empty() { return Ok(()) }
SkipsPatch(fields) == fields = <<>>

\* CallSetAttributes that sends the request a second time.
CallSetAttributesTwice(h, d) ==
  /\ attrCalls' = [attrCalls EXCEPT ![h] = Append(@, d)]
  /\ patches' = IF SkipsPatch(customFields) THEN patches
                ELSE [patches EXCEPT ![d] = @ + 2]

\* set_document_attributes(document_id) on behalf of job h, up to its request
CallSetAttributes(h, d) ==
  /\ attrCalls' = [attrCalls EXCEPT ![h] = Append(@, d)]
  /\ patches' = IF SkipsPatch(customFields) THEN patches
                ELSE [patches EXCEPT ![d] = @ + 1]

\* How a PATCH request was answered: with a success response, or not.
PatchAnswer(reply) == IF reply = "ok" THEN "ok" ELSE "failed"

\* PatchResult without error_for_status(): any response is a success.
PatchResultAnyResponse(reply) == IF reply = "transport" THEN Err(ReqwestMsg) ELSE Ok

\* .send().await?.error_for_status()?; Ok(())
PatchResult(reply) == IF reply = "ok" THEN Ok ELSE Err(ReqwestMsg)

PatchReplies == {"ok", "transport", "status"}

\* ------------------------------------------------------------- wait_for_processing
\* The task spawned by put ends: Ok(_) => debug!, Err(err) => error!("{title}\t{err}")
Finish(t, result) ==
  /\ tracker' = [tracker EXCEPT ![t].pc = "done", ![t].result = result]
  /\ errorLog' = IF result.ok THEN errorLog
                 ELSE [errorLog EXCEPT ![t] = Append(@, result.msg)]

\* wait_for_task on the root handle returns ret: the `?` and the match on the
\* result, up to the next request of the tracking task
RootResolved(t, ret) ==
  /\ LET root == tracker[t].root IN
     IF ret.kind = "Err"
     THEN Finish(t, Err(ret.msg)) /\ UNCHANGED <<attrCalls, patches>>
     ELSE IF ret.kind = "Panic"
     THEN /\ tracker' = [tracker EXCEPT ![t].pc = "panicked"]
          /\ UNCHANGED <<attrCalls, patches, errorLog>>
     ELSE IF ret.tag = "Success"
     THEN /\ CallSetAttributes(root, ret.doc)
          /\ IF SkipsPatch(customFields) THEN Finish(t, Ok)
             ELSE /\ tracker' = [tracker EXCEPT ![t].pc = "patch"]
                  /\ UNCHANGED errorLog
     ELSE IF ret.tag = "Failure"
     THEN Finish(t, Err(ret.msg)) /\ UNCHANGED <<attrCalls, patches>>
     ELSE /\ tracker' = [tracker EXCEPT ![t].pc = "discover", ![t].listings = @ + 1]
          /\ UNCHANGED <<attrCalls, patches, errorLog>>
  /\ UNCHANGED split

\* The PATCH for the root document is answered.
RootPatchReply(t, reply) ==
  /\ tracker[t].pc = "patch"
  /\ tracker' = [tracker EXCEPT ![t].pc = "done", ![t].result = PatchResult(reply),
                                ![t].patched = PatchAnswer(reply)]
  /\ errorLog' = IF PatchResult(reply).ok THEN errorLog
                 ELSE [errorLog EXCEPT ![t] = Append(@, PatchResult(reply).msg)]
  /\ UNCHANGED <<customFields, telegram, upload, split, poller, attrCalls, patches, sent>>

\* FindRelatedTasks that keeps the tasks without a file name.
FindRelatedTasksUnnamedToo(tasks, file_name_prefix) ==
  SelectSeq(tasks, LAMBDA task :
    IF task.file_name = None THEN TRUE
    ELSE StartsWith(task.file_name[1], file_name_prefix))

\* FindRelatedTasks that keeps every task with a file name.
FindRelatedTasksAnyName(tasks, file_name_prefix) ==
  SelectSeq(tasks, LAMBDA task : task.file_name # None)

\* find_related_tasks: the filter over the fetched tasks
FindRelatedTasks(tasks, file_name_prefix) ==
  SelectSeq(tasks, LAMBDA task :
    IF task.file_name = None THEN FALSE
    ELSE StartsWith(task.file_name[1], file_name_prefix))

\* fetch_tasks: ...json::<Vec<Task>>().await?
FetchTasks(reply) ==
  IF reply.kind # "ok" THEN [ok |-> FALSE, tasks |-> <<>>]
  ELSE [ok |-> TRUE, tasks |-> [i \in 1..Len(reply.body) |-> DeserializeTask(reply.body[i])]]

\* for task in related { if task.uuid == *upload_id { continue; } tasks.spawn(..) }
SpawnedFor(related, upload_id) ==
  {related[i].uuid : i \in 1..Len(related)} \ {upload_id}

\* Result::or
ResultOr(acc, result) == IF acc.ok THEN acc ELSE result

RECURSIVE FoldOr(_, _)
FoldOr(acc, results) ==
  IF results = <<>> THEN acc ELSE FoldOr(ResultOr(acc, Head(results)), Tail(results))

\* .into_iter().reduce(|acc, result| acc.or(result)) : Option<Result>
ReduceOr(results) ==
  IF results = <<>> THEN None ELSE Some(FoldOr(Head(results), Tail(results)))

\* The results join_all has collected, in completion order.
Output(tr) == [i \in 1..tr.taken |-> split[tr.completed[i]].result]

\* The listing for the split root is answered: spawn one task per related job,
\* then join_all; with no task join_all returns at once and expect() panics.
DiscoverReply(t, reply) ==
  /\ tracker[t].pc = "discover"
  /\ LET fetched == FetchTasks(reply) IN
     IF ~fetched.ok
     THEN Finish(t, Err(ReqwestMsg)) /\ UNCHANGED <<split, poller>>
     ELSE LET related == FindRelatedTasks(fetched.tasks, tracker[t].prefix)
              spawned == SpawnedFor(related, tracker[t].root) IN
       /\ \A h \in spawned : split[h].pc = "none" /\ poller[h].pc = "idle"
       /\ split' = [h \in Handles |->
            IF h \in spawned THEN [IdleSplit EXCEPT !.pc = "poll", !.owner = t]
            ELSE split[h]]
       /\ poller' = [h \in Handles |->
            IF h \in spawned THEN StartPoller(PollInterval, PollTimeout) ELSE poller[h]]
       /\ tracker' = [tracker EXCEPT ![t].children = spawned,
            ![t].listed = Some(reply.body),
            ![t].pc = IF ReduceOr(<<>>) = None /\ spawned = {} THEN "panicked" ELSE "join"]
       /\ UNCHANGED errorLog
  /\ UNCHANGED <<customFields, telegram, upload, attrCalls, patches, sent>>

\* ------------------------------------------------------------- wait_for_split_processing
\* The JoinSet task of job h ends with a result or a panic; the JoinSet queues it.
Complete(h, pc, result) ==
  /\ split' = [split EXCEPT ![h].pc = pc, ![h].result = result]
  /\ tracker' = [tracker EXCEPT ![split[h].owner].completed = Append(@, h)]

\* wait_for_task on a split job returns ret: the `?` and the match on the
\* result, up to the next request of the JoinSet task
SiblingResolved(h, ret) ==
  /\ IF ret.kind = "Err"
     THEN Complete(h, "done", Err(ret.msg)) /\ UNCHANGED <<attrCalls, patches>>
     ELSE IF ret.kind = "Panic"
     THEN Complete(h, "panicked", NoResult) /\ UNCHANGED <<attrCalls, patches>>
     ELSE IF ret.tag = "Success"
     THEN /\ CallSetAttributes(h, ret.doc)
          /\ IF SkipsPatch(customFields) THEN Complete(h, "done", Ok)
             ELSE /\ split' = [split EXCEPT ![h].pc = "patch"]
                  /\ UNCHANGED tracker
     ELSE IF ret.tag = "Failure"
     THEN Complete(h, "done", Err(ret.msg)) /\ UNCHANGED <<attrCalls, patches>>
     ELSE Complete(h, "panicked", NoResult) /\ UNCHANGED <<attrCalls, patches>>
  /\ UNCHANGED errorLog

\* The PATCH for the document of split job h is answered.
SiblingPatchReply(h, reply) ==
  /\ split[h].pc = "patch"
  /\ split' = [split EXCEPT ![h].pc = "done", ![h].result = PatchResult(reply),
                            ![h].patched = PatchAnswer(reply)]
  /\ tracker' = [tracker EXCEPT ![split[h].owner].completed = Append(@, h)]
  /\ UNCHANGED <<customFields, telegram, upload, poller, attrCalls, patches, sent, errorLog>>

\* ------------------------------------------------------------- wait_for_task, the loop
\* When wait_for_task on h returns, its caller runs on in the same task without
\* suspending: wait_for_processing for a root handle, wait_for_split_processing
\* for a split job.
Resume(h) ==
  IF poller'[h].pc # "done"
  THEN UNCHANGED <<tracker, split, attrCalls, patches, errorLog>>
  ELSE IF \E t \in Titles : tracker[t].pc = "root" /\ tracker[t].root = h
  THEN RootResolved(CHOOSE t \in Titles : tracker[t].pc = "root" /\ tracker[t].root = h,
                    poller'[h].ret)
  ELSE IF split[h].pc = "poll"
  THEN SiblingResolved(h, poller'[h].ret)
  ELSE UNCHANGED <<tracker, split, attrCalls, patches, errorLog>>

\* Top of the loop: issue the status request, or give up.
LoopCheck(h) ==
  /\ poller[h].pc = "check"
  /\ IF WithinDeadline(poller[h])
     THEN poller' = [poller EXCEPT ![h].pc = "fetch", ![h].fetches = @ + 1]
     ELSE poller' = [poller EXCEPT ![h] = Returned(@, RetErr(TimeoutMsg))]
  /\ Resume(h)
  /\ UNCHANGED <<customFields, telegram, upload, sent>>

\* The status request of handle h is answered after `latency` seconds.
FetchReply(h, reply, latency) ==
  /\ poller[h].pc = "fetch"
  /\ LET fetched == FetchTask(reply)
         p == [poller[h] EXCEPT !.seen = fetched.task, !.got = ReplyKind(reply)] IN
     IF ~fetched.ok
     THEN poller' = [poller EXCEPT ![h] = Returned(p, RetErr(fetched.msg))]
     ELSE LET r == TaskResultOf(fetched.task[1]) IN
       IF r.kind = "None" THEN poller' = [poller EXCEPT ![h] = Sleep(p, latency)]
       ELSE IF r.kind = "Panic"
         THEN poller' = [poller EXCEPT ![h] = Returned(p, RetPanic(r.msg))]
       ELSE poller' = [poller EXCEPT ![h] = Returned(p, RetOk(r))]
  /\ Resume(h)
  /\ UNCHANGED <<customFields, telegram, upload, sent>>

\* DroppedTasks for a panic that takes every task of the process down.
DroppedTasksAll(tr) == Handles

\* The tasks of the JoinSet that the tracking task owns: dropping it aborts them.
DroppedTasks(tr) == tr.children

\* join_all takes the next finished task: a panic is resumed in the tracking task
\* and the dropped JoinSet aborts the others; after the last one the results
\* are reduced and wait_for_processing returns.
JoinNext(t) ==
  /\ tracker[t].pc = "join"
  /\ tracker[t].taken < Len(tracker[t].completed)
  /\ LET tr == tracker[t]
         h == tr.completed[tr.taken + 1] IN
     IF split[h].pc = "panicked"
     THEN /\ tracker' = [tracker EXCEPT ![t].pc = "panicked"]
          /\ split' = [c \in Handles |->
               IF c \in DroppedTasks(tr) /\ split[c].pc \in {"poll", "patch"}
               THEN [split[c] EXCEPT !.pc = "aborted"] ELSE split[c]]
          /\ poller' = [c \in Handles |->
               IF c \in DroppedTasks(tr) /\ poller[c].pc \in {"check", "fetch"}
               THEN [poller[c] EXCEPT !.pc = "aborted", !.elapsed = 0, !.lastLatency = 0,
                                      !.fetches = 0]
               ELSE poller[c]]
          /\ UNCHANGED errorLog
     ELSE /\ UNCHANGED <<split, poller>>
          /\ IF tr.taken + 1 < Cardinality(tr.children)
             THEN /\ tracker' = [tracker EXCEPT ![t].taken = @ + 1]
                  /\ UNCHANGED errorLog
             ELSE LET all == Output([tr EXCEPT !.taken = @ + 1]) IN
                  /\ tracker' = [tracker EXCEPT ![t].taken = tr.taken + 1,
                                                ![t].pc = "done",
                                                ![t].result = ReduceOr(all)[1]]
                  /\ errorLog' = IF ReduceOr(all)[1].ok THEN errorLog
                                 ELSE [errorLog EXCEPT ![t] = Append(@, ReduceOr(all)[1].msg)]
  /\ UNCHANGED <<customFields, telegram, upload, attrCalls, patches, sent>>

\* ------------------------------------------------------------- specifications
\* Durations of a status request in Spec: prompt, or longer than the deadline.
Latencies == {0, PollTimeout}

\* The backend of Spec answers "still running" promptly at most MaxPolls times
\* per job, and only a "still running" answer is slow.
BackendPace(h, reply, latency) ==
  IF StillRunning(reply) THEN latency = 0 => poller[h].fetches <= MaxPolls
  ELSE latency = 0

\* The backend hands out the least handle that is not in use.
FreshUuid(reply) ==
  reply.body # None =>
    \A h \in Handles : h < reply.body[1] => (poller[h].pc # "idle" \/ split[h].pc # "none")

\* The jobs the backend was given by no scan yet.
FreeHandles ==
  {h \in Handles :
     \A u \in Titles : (tracker[u].pc = "none" \/ tracker[u].root # h) /\ h \notin tracker[u].children}

\* The backend lists every job it was given under its file name: the root job
\* of a scan under the uploaded name, the jobs of its split under document
\* names; the jobs in `new` are listed as new split documents of scan t.
SessionNames(t, new) ==
  [h \in Handles |->
     IF \E u \in Titles : tracker[u].pc # "none" /\ tracker[u].root = h
     THEN <<Some(FileNamePrefix(CHOOSE u \in Titles :
                   tracker[u].pc # "none" /\ tracker[u].root = h) \o <<".pdf">>)>>
     ELSE IF \E u \in Titles : h \in tracker[u].children
     THEN <<Some(FileNamePrefix(CHOOSE u \in Titles : h \in tracker[u].children)
                   \o <<"_document_1", ".pdf">>)>>
     ELSE IF h \in new THEN <<Some(FileNamePrefix(t) \o <<"_document_1", ".pdf">>)>>
     ELSE <<>>]

\* Answers to GET /api/tasks/ for scan t by a backend that has the jobs of
\* the scans tracked so far.
SessionListings(t) ==
  {[kind |-> k, body |-> <<>>] : k \in {"transport", "status", "decode"}}
    \cup {[kind |-> "ok", body |-> ListOf(SessionNames(t, new), 1, NumTasks)] :
            new \in SUBSET FreeHandles}

Next ==
  \/ Store(Title1)
  \/ \E reply \in UploadReplies : FreshUuid(reply) /\ PutReply(Title1, reply)
  \/ \E h \in Handles : LoopCheck(h)
  \/ \E h \in Handles : \E reply \in FetchReplies(h) : \E latency \in Latencies :
       BackendPace(h, reply, latency) /\ FetchReply(h, reply, latency)
  \/ \E reply \in PatchReplies : RootPatchReply(Title1, reply)
  \/ \E reply \in SessionListings(Title1) : DiscoverReply(Title1, reply)
  \/ \E h \in Handles : \E reply \in PatchReplies : SiblingPatchReply(h, reply)
  \/ JoinNext(Title1)

Spec == Init /\ [][Next]_vars

\* ------------------------------------------------------------- SpecPoller
\* One wait_for_task call on its own: with the interval and timeout that
\* wait_for_processing passes and with small ones, every kind of job record
\* (all three that leave the job running), each status request taking
\* 0..MaxLatency seconds.
PollerParams == {<<PollInterval, PollTimeout>>} \cup ({1, 2} \X {0, 3})

AnyFetchReplies(h) ==
  FetchReplies(h)
    \cup {[kind |-> "ok", body |-> <<TaskJson(h, None, s, None, None)>>] :
            s \in {None, Some("STARTED")}}

InitPoller ==
  /\ customFields = <<>>
  /\ telegram = FALSE
  /\ upload = [t \in Titles |-> IdleUpload]
  /\ tracker = [t \in Titles |-> IdleTracker]
  /\ split = [h \in Handles |-> IdleSplit]
  /\ \E params \in PollerParams :
       poller = [h \in Handles |->
         IF h = 1 THEN StartPoller(params[1], params[2]) ELSE IdlePoller]
  /\ attrCalls = [h \in Handles |-> <<>>]
  /\ patches = [d \in DocIds |-> 0]
  /\ sent = <<>>
  /\ errorLog = [t \in Titles |-> <<>>]

NextPoller ==
  \/ \E h \in Handles : LoopCheck(h)
  \/ \E h \in Handles : \E reply \in AnyFetchReplies(h) : \E latency \in 0..MaxLatency :
       FetchReply(h, reply, latency)

SpecPoller == InitPoller /\ [][NextPoller]_vars

\* ------------------------------------------------------------- SpecResolver
\* The tracking task of one uploaded scan whose root job is reported with
\* every combination of file name, status, result message and document id:
\* Task::result on each record, and what wait_for_task and
\* wait_for_processing do with its value.
ResolverReplies(h) == {[kind |-> "ok", body |-> <<j>>] : j \in RawTasks(h)}

InitResolver ==
  /\ customFields \in Configs
  /\ telegram = FALSE
  /\ upload = [t \in Titles |->
       IF t = Title1
       THEN [pc |-> "done", requests |-> 1,
             reply |-> [kind |-> "ok", body |-> Some(1)], result |-> Ok]
       ELSE IdleUpload]
  /\ tracker = [t \in Titles |->
       IF t = Title1
       THEN [IdleTracker EXCEPT !.pc = "root", !.root = 1, !.prefix = FileNamePrefix(t)]
       ELSE IdleTracker]
  /\ split = [h \in Handles |-> IdleSplit]
  /\ poller = [h \in Handles |->
       IF h = 1 THEN StartPoller(PollInterval, PollTimeout) ELSE IdlePoller]
  /\ attrCalls = [h \in Handles |-> <<>>]
  /\ patches = [d \in DocIds |-> 0]
  /\ sent = <<>>
  /\ errorLog = [t \in Titles |-> <<>>]

NextResolver ==
  \/ \E h \in Handles : LoopCheck(h)
  \/ \E h \in Handles : \E reply \in ResolverReplies(h) : \E latency \in Latencies :
       FetchReply(h, reply, latency)
  \/ \E reply \in PatchReplies : RootPatchReply(Title1, reply)

SpecResolver == InitResolver /\ [][NextResolver]_vars

\* ------------------------------------------------------------- SpecDiscover
\* The tracking task of one scan from the moment its root job has resolved to
\* Split: the job list is answered with every combination of listed handles
\* and file names, and the split jobs that get polled succeed.
SplitRecord(h) == TaskJson(h, None, Some("SUCCESS"), Some(<<"Barcode ", SplitMarker>>), None)

SucceedingReplies(h) ==
  {[kind |-> "ok",
    body |-> <<TaskJson(h, None, Some("SUCCESS"), None, Some(DocOf(h)))>>]}

\* After the job list for scan t was answered, the backend gets another job
\* whose file name starts with the prefix of the scan.
LateJob(t, h) ==
  /\ tracker[t].listed # None
  /\ h \in Handles \ (tracker[t].late \cup tracker[t].children \cup {tracker[t].root})
  /\ poller[h].pc = "idle"
  /\ tracker' = [tracker EXCEPT ![t].late = @ \cup {h}]
  /\ UNCHANGED <<customFields, telegram, upload, split, poller, attrCalls,
                 patches, sent, errorLog>>

InitDiscover ==
  /\ customFields = <<>>
  /\ telegram = FALSE
  /\ \E root \in Handles :
       /\ upload = [t \in Titles |->
            IF t = Title1
            THEN [pc |-> "done", requests |-> 1,
                  reply |-> [kind |-> "ok", body |-> Some(root)], result |-> Ok]
            ELSE IdleUpload]
       /\ tracker = [t \in Titles |->
            IF t = Title1
            THEN [IdleTracker EXCEPT !.pc = "discover", !.root = root,
                                     !.prefix = FileNamePrefix(t), !.listings = 1]
            ELSE IdleTracker]
       /\ poller = [h \in Handles |->
            IF h = root
            THEN Returned([StartPoller(PollInterval, PollTimeout) EXCEPT
                             !.seen = Some(DeserializeTask(SplitRecord(h))),
                             !.got = "record"],
                          RetOk(Split))
            ELSE IdlePoller]
  /\ split = [h \in Handles |-> IdleSplit]
  /\ attrCalls = [h \in Handles |-> <<>>]
  /\ patches = [d \in DocIds |-> 0]
  /\ sent = <<>>
  /\ errorLog = [t \in Titles |-> <<>>]

NextDiscover ==
  \/ \E reply \in TasksReplies(Title1) : DiscoverReply(Title1, reply)
  \/ \E h \in Handles : LoopCheck(h)
  \/ \E h \in Handles : \E reply \in SucceedingReplies(h) : FetchReply(h, reply, 0)
  \/ JoinNext(Title1)
  \/ \E h \in Handles : LateJob(Title1, h)

SpecDiscover == InitDiscover /\ [][NextDiscover]_vars

\* ------------------------------------------------------------- SpecSessions
\* Two scans are stored and tracked at the same time. A job that is still
\* running answers slowly enough for the deadline to pass.
SessionPace(reply, latency) ==
  IF StillRunning(reply) THEN latency = PollTimeout ELSE latency = 0

\* Answers to the status request of job h while two scans are tracked: a job
\* record for each way Task::result can go.
SessionFetchReplies(h) ==
  {[kind |-> "ok", body |-> <<j>>] :
     j \in {r \in ReportedTasks(h) : r.status = Some("FAILURE") => r.result # None}}

InitSessions ==
  /\ customFields = <<[field |-> 1, value |-> 1]>>
  /\ telegram = TRUE
  /\ upload = [t \in Titles |-> IdleUpload]
  /\ tracker = [t \in Titles |-> IdleTracker]
  /\ split = [h \in Handles |-> IdleSplit]
  /\ poller = [h \in Handles |-> IdlePoller]
  /\ attrCalls = [h \in Handles |-> <<>>]
  /\ patches = [d \in DocIds |-> 0]
  /\ sent = <<>>
  /\ errorLog = [t \in Titles |-> <<>>]

NextSessions ==
  \/ \E t \in Titles : Store(t)
  \/ \E t \in Titles : \E reply \in UploadReplies : FreshUuid(reply) /\ PutReply(t, reply)
  \/ \E h \in Handles : LoopCheck(h)
  \/ \E h \in Handles : \E reply \in SessionFetchReplies(h) : \E latency \in Latencies :
       SessionPace(reply, latency) /\ FetchReply(h, reply, latency)
  \/ \E t \in Titles : \E reply \in PatchReplies : RootPatchReply(t, reply)
  \/ \E t \in Titles : \E reply \in SessionListings(t) : DiscoverReply(t, reply)
  \/ \E h \in Handles : \E reply \in PatchReplies : SiblingPatchReply(h, reply)
  \/ \E t \in Titles : JoinNext(t)

SpecSessions == InitSessions /\ [][NextSessions]_vars

\* ------------------------------------------------------------- claims
\* The tracking task of scan t went through a split and returned.
SplitReturned(t) == tracker[t].pc = "done" /\ tracker[t].children # {}

\* Messages handed to the notifier that name scan t.
SentFor(t) == {i \in DOMAIN sent : sent[i].file = t}

\* C1: when the root job resolved to Split and at least one sibling ended in
\* failure, the result of wait_for_processing is a failure.
C1_SplitWithFailureFails ==
  \A t \in Titles :
    (SplitReturned(t) /\ \E h \in tracker[t].children : ~split[h].result.ok)
      => ~tracker[t].result.ok

\* C2: the result of a split is success only if every sibling succeeded, and
\* then set_document_attributes was invoked exactly once per sibling, with
\* that sibling's document id.
C2_SplitSuccessMeansAllSucceeded ==
  \A t \in Titles :
    (SplitReturned(t) /\ tracker[t].result.ok)
      => \A h \in tracker[t].children :
           /\ split[h].result.ok
           /\ poller[h].ret.tag = "Success"
           /\ attrCalls[h] = <<poller[h].ret.doc>>

\* C3: when the tracking task ends in a failure (and a notifier is configured)
\* exactly one message naming the scan and carrying the failure was handed
\* to the notifier.
C3_TrackingFailureNotifiedOnce ==
  \A t \in Titles :
    (telegram /\ tracker[t].pc = "done" /\ ~tracker[t].result.ok)
      => /\ Cardinality(SentFor(t)) = 1
         /\ \A i \in SentFor(t) : sent[i] = Notification(t, tracker[t].result.msg)

\* The root job of scan t resolved to Success.
RootSucceeded(t) ==
  /\ tracker[t].pc # "none"
  /\ poller[tracker[t].root].ret.tag = "Success"

\* C4: after the root job resolved to Success with document D, D has been
\* patched exactly once when the custom field set is non-empty (never when it
\* is empty, never any other document), the session ends with the result of
\* the patch (Ok without one), and the notifier was not called for the scan.
C4_SingleSuccessPatchedAndSilent ==
  \A t \in Titles :
    RootSucceeded(t) =>
      LET root == tracker[t].root
          d == poller[root].ret.doc IN
      /\ attrCalls[root] = <<d>>
      /\ patches = [x \in DocIds |-> IF x = d /\ customFields # <<>> THEN 1 ELSE 0]
      /\ tracker[t].children = {}
      /\ (customFields = <<>> => tracker[t].pc = "done" /\ tracker[t].result = Ok)
      /\ (tracker[t].pc = "done" /\ ~tracker[t].result.ok => tracker[t].result = Err(ReqwestMsg))
      /\ SentFor(t) = {}

C4_Witness ==
  \E t \in Titles :
    /\ RootSucceeded(t)
    /\ tracker[t].pc = "done"
    /\ tracker[t].result = Ok
    /\ customFields # <<>>
    /\ patches[poller[tracker[t].root].ret.doc] = 1
    /\ telegram

\* The upload was answered by a transport failure, an error status or a body
\* that is no job handle.
UploadFailed(reply) == reply.kind \in {"transport", "status"} \/ reply.body = None

\* C5: when the upload request fails, put has returned the error, exactly one
\* upload request was made, no tracking task exists for the scan and every
\* polled handle belongs to another scan.
C5_UploadFailureIsSynchronous ==
  \A t \in Titles :
    (upload[t].pc = "done" /\ UploadFailed(upload[t].reply)) =>
      /\ upload[t].result = Err(ReqwestMsg)
      /\ upload[t].requests = 1
      /\ tracker[t] = IdleTracker
      /\ \A h \in Handles :
           poller[h].pc # "idle" =>
             \E u \in Titles \ {t} : h = tracker[u].root \/ h \in tracker[u].children

C5_Witness ==
  \E t \in Titles :
    /\ upload[t].pc = "done"
    /\ upload[t].reply = [kind |-> "status", body |-> Some(1)]
    /\ upload[t].result = Err(ReqwestMsg)
    /\ sent = <<Notification(t, ReqwestMsg)>>

\* The loop of wait_for_task on h is at its top with the deadline passed: the
\* call returns the timeout error at this instant.
TimesOut(h) == poller[h].pc = "check" /\ ~(poller[h].elapsed < poller[h].timeout)

\* C6 as stated: wait_for_task returns the timeout error no later than the
\* deadline plus one polling interval.
C6_TimeoutWithinOneInterval ==
  \A h \in Handles :
    TimesOut(h) => poller[h].elapsed <= poller[h].timeout + poller[h].interval

\* C6 as amended: wait_for_task returns the timeout error less than one loop
\* iteration (the last status request plus one polling interval) after the
\* deadline, and issues request k only if (k - 1) intervals fit before the
\* deadline, so it cannot run indefinitely.
C6_TimeoutWithinOneIteration ==
  \A h \in Handles :
    /\ TimesOut(h) =>
         poller[h].elapsed < poller[h].timeout + poller[h].lastLatency + poller[h].interval
    /\ poller[h].fetches > 0 =>
         (poller[h].fetches - 1) * poller[h].interval < poller[h].timeout
    /\ (poller[h].pc = "done" /\ poller[h].seen # None
          /\ TaskResultOf(poller[h].seen[1]).kind = "None")
         => poller[h].ret = RetErr(TimeoutMsg)

C6_Witness ==
  \E h \in Handles :
    /\ TimesOut(h)
    /\ poller[h].timeout = PollTimeout
    /\ poller[h].interval = PollInterval
    /\ poller[h].elapsed > PollTimeout + PollInterval
    /\ poller[h].fetches >= 50

\* The last job record seen for h, when there is one.
SeenStatus(h, tag) ==
  /\ poller[h].pc = "done"
  /\ poller[h].seen # None
  /\ poller[h].seen[1].status # None
  /\ poller[h].seen[1].status[1].tag = tag

\* C7: a job record with status Success, no split marker and no document id
\* makes wait_for_task return an error value, not panic.
C7_MissingDocumentIsAnError ==
  \A h \in Handles :
    (/\ SeenStatus(h, "Success")
     /\ ~Contains(UnwrapOrDefault(poller[h].seen[1].message, <<>>), SplitMarker)
     /\ poller[h].seen[1].related_document = None)
      => poller[h].ret.kind = "Err"

\* C8: a job record with an unrecognized status makes wait_for_task return an
\* error value that carries the raw status string.
C8_UnknownStatusIsAnError ==
  \A h \in Handles :
    SeenStatus(h, "Other")
      => /\ poller[h].ret.kind = "Err"
         /\ Contains(poller[h].ret.msg, poller[h].seen[1].status[1].raw)

\* C9: a split root for which no sibling was found ends the tracking task
\* with an error result.
C9_NoSiblingsIsAnError ==
  \A t \in Titles :
    (/\ tracker[t].pc \in {"join", "done", "panicked"}
     /\ poller[tracker[t].root].ret.tag = "Split"
     /\ tracker[t].children = {})
      => tracker[t].pc = "done" /\ ~tracker[t].result.ok

\* C10: a sibling that resolves to Split ends with an error that makes the
\* aggregate a failure; the tracking task does not end abnormally.
C10_NestedSplitIsAnError ==
  \A h \in Handles :
    (split[h].pc \in {"done", "panicked"} /\ poller[h].ret.tag = "Split")
      => /\ split[h].pc = "done"
         /\ ~split[h].result.ok
         /\ tracker[split[h].owner].pc # "panicked"
         /\ (tracker[split[h].owner].pc = "done" => ~tracker[split[h].owner].result.ok)

\* The job record the last status request for h got has one of these statuses.
SeenTag(h, tags) ==
  /\ poller[h].seen # None
  /\ poller[h].seen[1].status # None
  /\ poller[h].seen[1].status[1].tag \in tags

\* C11: a job record with status Pending or Started resolves to None whatever
\* its message, file name and document id are; the poller does not return on
\* it (it sleeps and tests the deadline again, so it can only end by the
\* timeout), and the tracking task stays where it was, without any patch.
C11_RunningResolvesToNone ==
  \A h \in Handles :
    SeenTag(h, {"Pending", "Started"}) =>
      /\ TaskResultOf(poller[h].seen[1]) = RNone
      /\ poller[h].pc \in {"check", "fetch", "done"}
      /\ poller[h].pc = "done" => poller[h].ret = RetErr(TimeoutMsg)
      /\ poller[h].pc \in {"check", "fetch"} =>
           /\ \A t \in Titles : tracker[t].root = h => tracker[t].pc = "root"
           /\ attrCalls[h] = <<>>
           /\ patches = [d \in DocIds |-> 0]

C11_Witness ==
  \E h \in Handles :
    /\ SeenTag(h, {"Started"})
    /\ poller[h].seen[1].message = Some(<<"Barcode ", SplitMarker>>)
    /\ poller[h].seen[1].related_document # None
    /\ poller[h].seen[1].file_name # None
    /\ poller[h].pc = "fetch"
    /\ poller[h].fetches >= 2

\* C12: a job record with status Success whose message contains the split
\* marker resolves to Split, with or without a document id: wait_for_task
\* returns Split, the tracking task goes on to the discovery of the split jobs
\* and set_document_attributes is not called for the record's document.
C12_SplitMarkerTakesPrecedence ==
  \A h \in Handles :
    (/\ SeenTag(h, {"Success"})
     /\ Contains(UnwrapOrDefault(poller[h].seen[1].message, <<>>), SplitMarker))
      => /\ TaskResultOf(poller[h].seen[1]) = RSome(Split)
         /\ poller[h].pc = "done"
         /\ poller[h].ret = RetOk(Split)
         /\ attrCalls[h] = <<>>
         /\ \A t \in Titles :
              (tracker[t].pc # "none" /\ tracker[t].root = h)
                => tracker[t].pc \in {"discover", "join", "done", "panicked"}

C12_Witness ==
  \E h \in Handles :
    /\ SeenTag(h, {"Success"})
    /\ Contains(UnwrapOrDefault(poller[h].seen[1].message, <<>>), SplitMarker)
    /\ poller[h].seen[1].related_document = Some(DocOf(h))
    /\ poller[h].ret.tag = "Split"
    /\ tracker[Title1].root = h
    /\ tracker[Title1].pc = "discover"
    /\ customFields # <<>>

\* The message a Failure record carries: its result field, "" when absent.
FailureMessage(task) == IF task.message = None THEN <<>> ELSE task.message[1]

\* C13: a job record with status Failure resolves to Failure with exactly the
\* record's message (the empty string when the record has none); wait_for_task
\* returns it, the task that polled the job ends with that message as its
\* error (the tracking task also logs it) and no patch is issued for the job.
C13_FailureCarriesMessage ==
  \A h \in Handles :
    SeenTag(h, {"Failure"}) =>
      LET m == FailureMessage(poller[h].seen[1]) IN
      /\ TaskResultOf(poller[h].seen[1]) = RSome(Failure(m))
      /\ poller[h].pc = "done"
      /\ poller[h].ret = RetOk(Failure(m))
      /\ attrCalls[h] = <<>>
      /\ \A d \in DocIds : d = DocOf(h) => patches[d] = 0
      /\ \A t \in Titles :
           (tracker[t].pc # "none" /\ tracker[t].root = h)
             => /\ tracker[t].pc = "done"
                /\ tracker[t].result = Err(m)
                /\ errorLog[t] = <<m>>
      /\ split[h].pc # "none" => split[h].pc = "done" /\ split[h].result = Err(m)

C13_Witness ==
  \E h \in Handles :
    /\ SeenTag(h, {"Failure"})
    /\ poller[h].seen[1].message = None
    /\ poller[h].seen[1].related_document # None
    /\ tracker[Title1].root = h
    /\ tracker[Title1].result = Err(<<>>)
    /\ errorLog[Title1] = <<<<>>>>
    /\ customFields # <<>>

\* Job h was polled by a task of a split and resolved to Success.
SiblingSucceeded(h) == split[h].pc # "none" /\ poller[h].ret.tag = "Success"

\* C14: with an empty custom field set no PATCH request is ever sent or
\* awaited, and set_document_attributes returns Ok at once: a root job that
\* resolved to Success ends the tracking task with Ok, and every split job
\* that resolved to Success ends its task with Ok.
C14_EmptyFieldsNoRequest ==
  customFields = <<>> =>
    /\ patches = [d \in DocIds |-> 0]
    /\ \A t \in Titles : tracker[t].pc # "patch"
    /\ \A h \in Handles : split[h].pc # "patch"
    /\ \A t \in Titles :
         RootSucceeded(t) =>
           /\ tracker[t].pc = "done" /\ tracker[t].result = Ok
           /\ attrCalls[tracker[t].root] = <<poller[tracker[t].root].ret.doc>>
    /\ \A h \in Handles :
         SiblingSucceeded(h) =>
           /\ split[h].pc = "done" /\ split[h].result = Ok
           /\ attrCalls[h] = <<poller[h].ret.doc>>

C14_Witness ==
  /\ customFields = <<>>
  /\ \E h, g \in Handles :
       /\ h # g
       /\ SiblingSucceeded(h) /\ SiblingSucceeded(g)
       /\ split[h].result = Ok /\ split[g].result = Ok
       /\ attrCalls[h] = <<DocOf(h)>> /\ attrCalls[g] = <<DocOf(g)>>
       /\ tracker[Title1].pc = "done"
       /\ tracker[Title1].result = Ok

\* C15: when the status request for a handle is answered with an empty list,
\* fetch_task fails with the "empty response" error and wait_for_task returns
\* that error at once: the empty answer is not kept as a job record, the
\* poller does not sleep or poll again, and the task that polled ends with
\* the error.
C15_EmptyResponseIsFatal ==
  \A h \in Handles :
    poller[h].got = "empty" =>
      /\ poller[h].pc = "done"
      /\ poller[h].ret = RetErr(EmptyMsg)
      /\ poller[h].seen = None
      /\ \A t \in Titles :
           (tracker[t].pc # "none" /\ tracker[t].root = h)
             => tracker[t].pc = "done" /\ tracker[t].result = Err(EmptyMsg)
      /\ split[h].pc # "none" => split[h].pc = "done" /\ split[h].result = Err(EmptyMsg)

C15_Witness ==
  \E h \in Handles :
    /\ poller[h].got = "empty"
    /\ poller[h].ret = RetErr(EmptyMsg)
    /\ split[h].pc = "done"
    /\ \E g \in Handles : g # h /\ split[g].pc = "poll" /\ poller[g].pc = "fetch"

\* The tracking task of scan t spawned split tasks and has ended, with a
\* result or abnormally.
SplitEnded(t) == tracker[t].pc \in {"done", "panicked"} /\ tracker[t].children # {}

\* C16: the tracking task of a split ends only after every split task it
\* spawned has ended by itself, with its poller returned (an outcome, a fetch
\* error or the timeout): no split task is still polling, and none was cut off.
C16_JoinWaitsForAllSiblings ==
  \A t \in Titles :
    SplitEnded(t) =>
      \A h \in tracker[t].children :
        /\ poller[h].pc = "done"
        /\ split[h].pc \in {"done", "panicked"}

\* The part of C16 that holds: an aggregate result exists only when every
\* split task has returned its own result.
JoinedBeforeReduce ==
  \A t \in Titles :
    SplitReturned(t) =>
      /\ tracker[t].taken = Cardinality(tracker[t].children)
      /\ \A h \in tracker[t].children : poller[h].pc = "done" /\ split[h].pc = "done"

\* The handles of the records in a job list whose file name is present and
\* starts with "EpicPrinter-<title>".
NamedFor(t, body) ==
  {h \in Handles :
     \E i \in 1..Len(body) :
       /\ body[i].task_id = h
       /\ body[i].task_file_name # None
       /\ Len(body[i].task_file_name[1]) >= 1 + Len(t)
       /\ SubSeq(body[i].task_file_name[1], 1, 1 + Len(t)) = <<"EpicPrinter-">> \o t}

\* The handles some poller was ever started for.
Polled == {h \in Handles : poller[h].pc # "idle"}

\* C17: once the job list of a split root has been answered, the split tasks
\* spawned are exactly the listed records with a file name that starts with
\* "EpicPrinter-<title>", without the root handle; these and the root are the
\* only handles polled for the scan.
C17_SiblingsAreThePrefixMatches ==
  \A t \in Titles :
    tracker[t].listed # None =>
      LET expected == NamedFor(t, tracker[t].listed[1]) \ {tracker[t].root} IN
      /\ tracker[t].children = expected
      /\ \A h \in expected : split[h].pc # "none" /\ split[h].owner = t /\ h \in Polled
      /\ \A h \in Handles \ (expected \cup {tracker[t].root}) :
           /\ split[h].owner # t
           /\ (\A u \in Titles \ {t} : tracker[u].pc = "none") => h \notin Polled

\* A listing with the root, a matching job, and a job that is unnamed or
\* named for something else; the matching job has been polled to its end.
C17_Witness ==
  \E h, g \in Handles :
    /\ tracker[Title1].listed # None
    /\ Len(tracker[Title1].listed[1]) = 3
    /\ tracker[Title1].root \notin {h, g}
    /\ h # g
    /\ tracker[Title1].children = {h}
    /\ tracker[Title1].listed[1][g].task_file_name = Some(<<"EpicPrinter-", "other", ".pdf">>)
    /\ tracker[Title1].pc = "done"
    /\ poller[g].pc = "idle"

\* C18: once wait_for_task on a handle has produced its result (an outcome, a
\* fetch error or the timeout error) nothing about that poller changes any
\* more: it issues no status request and does not test the deadline again,
\* whatever the tracking task and the other pollers go on to do.
C18_NoFetchAfterTerminal ==
  [][\A h \in Handles : poller[h].ret # NoRet => poller'[h] = poller[h]]_vars

\* The root resolved to Split a while ago: a split job has been polled to its
\* end and another one is waiting for an answer.
C18_Witness ==
  \E h, g \in Handles :
    /\ tracker[Title1].pc = "join"
    /\ poller[tracker[Title1].root].ret = RetOk(Split)
    /\ h # g
    /\ poller[h].ret = RetErr(TimeoutMsg)
    /\ tracker[Title1].taken = 1
    /\ poller[g].pc = "fetch"
    /\ poller[g].fetches = 2

\* C19: when the PATCH for a created document is not answered with a success
\* response, the task that sent it ends with the request's error: the
\* tracking task fails and logs it (root document), or the split task's result
\* in the join is that error (split document). The document stays created
\* (the job's outcome is still Success) and exactly one PATCH was sent for it.
C19_PatchFailureFailsTracking ==
  /\ \A t \in Titles :
       tracker[t].patched = "failed" =>
         LET root == tracker[t].root IN
         /\ tracker[t].pc = "done"
         /\ tracker[t].result = Err(ReqwestMsg)
         /\ errorLog[t] = <<ReqwestMsg>>
         /\ poller[root].ret.tag = "Success"
         /\ attrCalls[root] = <<poller[root].ret.doc>>
         /\ patches[poller[root].ret.doc] = 1
  /\ \A h \in Handles :
       split[h].patched = "failed" =>
         LET tr == tracker[split[h].owner] IN
         /\ split[h].pc = "done"
         /\ split[h].result = Err(ReqwestMsg)
         /\ Cardinality({i \in DOMAIN tr.completed : tr.completed[i] = h}) = 1
         /\ poller[h].ret.tag = "Success"
         /\ attrCalls[h] = <<poller[h].ret.doc>>
         /\ patches[poller[h].ret.doc] = 1

C19_Witness ==
  \E h \in Handles :
    /\ split[h].patched = "failed"
    /\ tracker[split[h].owner].pc = "done"
    /\ tracker[split[h].owner].children = {h}
    /\ tracker[split[h].owner].result = Err(ReqwestMsg)

\* The tracking task of scan t is running.
Active(t) == tracker[t].pc \in {"root", "patch", "discover", "join"}

\* Something the tracking task of scan t waits for can happen: an answer to a
\* request of the task or of one of its split tasks, the next loop iteration
\* of one of its pollers, or a finished split task to take.
CanStep(t) ==
  LET tr == tracker[t] IN
  \/ tr.pc = "root" /\ poller[tr.root].pc \in {"check", "fetch"}
  \/ tr.pc \in {"patch", "discover"}
  \/ /\ tr.pc = "join"
     /\ \/ tr.taken < Len(tr.completed)
        \/ \E h \in tr.children :
             \/ split[h].pc = "poll" /\ poller[h].pc \in {"check", "fetch"}
             \/ split[h].pc = "patch"

\* The tracking task of scan t ended abnormally over one of its own jobs.
OwnPanic(t) ==
  LET tr == tracker[t] IN
  \/ poller[tr.root].ret.kind = "Panic"
  \/ poller[tr.root].ret.tag = "Split" /\ tr.listed # None /\ tr.children = {}
  \/ \E h \in tr.children : split[h].pc = "panicked" /\ split[h].owner = t

\* The error the tracking task of scan t ended with comes from one of its
\* own requests or jobs.
OwnError(t) ==
  LET tr == tracker[t]
      m == tracker[t].result.msg IN
  \/ poller[tr.root].ret = RetErr(m)
  \/ poller[tr.root].ret = RetOk(Failure(m))
  \/ tr.patched = "failed" /\ m = ReqwestMsg
  \/ poller[tr.root].ret.tag = "Split" /\ tr.listed = None /\ m = ReqwestMsg
  \/ \E h \in tr.children : split[h].owner = t /\ split[h].result = Err(m)

\* C20: with two scans tracked at the same time, a tracking task that is
\* running can always go on, whatever has happened to the other one (an
\* error, a timeout, a panic over a missing document id, an unknown status, a
\* nested split or a split without jobs); and a tracking task ends with an
\* error or abnormally only over its own requests and jobs.
C20_SessionsAreIsolated ==
  \A t \in Titles :
    /\ Active(t) => CanStep(t)
    /\ tracker[t].pc = "panicked" => OwnPanic(t)
    /\ (tracker[t].pc = "done" /\ ~tracker[t].result.ok) => OwnError(t)
    /\ \A u \in Titles \ {t} :
         tracker[t].pc # "none" =>
           /\ tracker[t].root \notin tracker[u].children
           /\ tracker[u].pc # "none" => tracker[t].root # tracker[u].root
           /\ tracker[t].children \cap tracker[u].children = {}

\* One scan's split ended abnormally over a nested split while the other scan
\* is still being polled.
C20_Witness ==
  \E t, u \in Titles :
    /\ t # u
    /\ tracker[t].pc = "panicked"
    /\ \E h \in tracker[t].children : poller[h].ret.tag = "Split"
    /\ tracker[u].pc = "root"
    /\ poller[tracker[u].root].pc = "fetch"

\* The last status request for h got a job record without a status.
SeenNoStatus(h) == poller[h].seen # None /\ poller[h].seen[1].status = None

\* C21: a job record without a status resolves to None whatever its message,
\* file name and document id are: wait_for_task does not return on it, so a
\* poller whose last record had no status can only have ended by the
\* timeout, and the tracking task then ends with the timeout error, without
\* a patch and never with success.
C21_AbsentStatusPollsToTimeout ==
  \A h \in Handles :
    SeenNoStatus(h) =>
      /\ TaskResultOf(poller[h].seen[1]) = RNone
      /\ poller[h].pc \in {"check", "fetch", "done"}
      /\ poller[h].pc = "done" => poller[h].ret = RetErr(TimeoutMsg)
      /\ attrCalls[h] = <<>>
      /\ patches = [d \in DocIds |-> 0]
      /\ \A t \in Titles :
           (tracker[t].pc # "none" /\ tracker[t].root = h) =>
             /\ tracker[t].pc \in {"root", "done"}
             /\ tracker[t].pc = "root" <=> poller[h].pc \in {"check", "fetch"}
             /\ tracker[t].pc = "done" =>
                  tracker[t].result = Err(TimeoutMsg) /\ errorLog[t] = <<TimeoutMsg>>

\* The root job of a scan has timed out; its last record had no status, but
\* a split marker and a document id.
C21_Witness ==
  \E h \in Handles :
    /\ SeenNoStatus(h)
    /\ poller[h].seen[1].message = Some(<<"Barcode ", SplitMarker>>)
    /\ poller[h].seen[1].related_document # None
    /\ poller[h].ret = RetErr(TimeoutMsg)
    /\ tracker[Title1].root = h
    /\ tracker[Title1].result = Err(TimeoutMsg)

\* C22: the deadline is tested at the top of each loop iteration only. A
\* status request is outstanding only if the elapsed time was below the
\* timeout when it was issued; with timeout 0 no request is made at all and
\* the call returns the timeout error; and a call that returned the timeout
\* error made no request after its last sleep: the last record it got, if
\* any, is one of a running job.
C22_DeadlineTestedBeforeEachFetch ==
  \A h \in Handles :
    /\ poller[h].pc = "fetch" => poller[h].elapsed < poller[h].timeout
    /\ (poller[h].pc # "idle" /\ poller[h].timeout = 0) =>
         /\ poller[h].pc \in {"check", "done"}
         /\ poller[h].got = "none"
         /\ poller[h].pc = "done" => poller[h].ret = RetErr(TimeoutMsg)
    /\ poller[h].ret = RetErr(TimeoutMsg) =>
         /\ poller[h].got \in {"none", "record"}
         /\ poller[h].got = "none" <=> poller[h].timeout = 0
         /\ poller[h].got = "record" => TaskResultOf(poller[h].seen[1]) = RNone

\* A call with timeout 0 has returned the timeout error without a request.
C22_Witness ==
  \E h \in Handles :
    /\ poller[h].timeout = 0
    /\ poller[h].interval > 0
    /\ poller[h].ret = RetErr(TimeoutMsg)
    /\ poller[h].got = "none"

\* C23: the job list is requested at most once per scan, and only after the
\* root job resolved to Split; the split tasks are those the answer names
\* (file name with the prefix, without the root) for the rest of the run. A
\* job the backend gets for the scan after the answer is never polled, has no
\* split task, and the result of the split is the result of a task spawned
\* from the answer.
C23_DiscoveryIsOneSnapshot ==
  \A t \in Titles :
    LET tr == tracker[t] IN
    /\ tr.listings <= 1
    /\ tr.listings = 1 <=> (tr.pc # "none" /\ poller[tr.root].ret = RetOk(Split))
    /\ tr.listed # None => tr.listings = 1
    /\ tr.listed # None => tr.children = NamedFor(t, tr.listed[1]) \ {tr.root}
    /\ \A h \in tr.late :
         /\ h \notin tr.children
         /\ h \notin Polled
         /\ split[h].pc = "none"
         /\ attrCalls[h] = <<>>
    /\ (tr.pc = "done" /\ tr.listed # None) =>
         /\ \E h \in tr.children : tr.result = split[h].result
         /\ tr.taken = Cardinality(tr.children)

\* A job appeared for the scan after the listing; the split ended without it.
C23_Witness ==
  \E h \in Handles :
    /\ h \in tracker[Title1].late
    /\ tracker[Title1].children # {}
    /\ tracker[Title1].pc = "done"
    /\ \E g \in tracker[Title1].children : poller[g].pc = "done"

\* C24: in a split, with a non-empty custom field set, a job that resolved to
\* Success has had exactly one PATCH sent for its document from the moment
\* it resolved, whatever the other split jobs do and before the join takes
\* its result; a job that has not resolved to Success (it failed, timed out,
\* got no answer, or is still polled) has had none. This holds in particular
\* when the tracking task has ended with a failure.
C24_PatchPerSiblingBeforeJoin ==
  customFields # <<>> =>
    \A h \in Handles :
      split[h].pc # "none" =>
        IF poller[h].ret.tag = "Success"
        THEN /\ attrCalls[h] = <<poller[h].ret.doc>>
             /\ patches[poller[h].ret.doc] = 1
             /\ split[h].pc \in {"patch", "done", "aborted"}
        ELSE /\ attrCalls[h] = <<>>
             /\ patches[DocOf(h)] = 0
             /\ split[h].patched = "none"

\* A split ended in failure: one job resolved to Success and its PATCH
\* failed, the other timed out.
C24_Witness ==
  \E h, g \in Handles :
    /\ customFields # <<>>
    /\ tracker[Title1].children = {h, g}
    /\ h # g
    /\ tracker[Title1].pc = "done"
    /\ ~tracker[Title1].result.ok
    /\ poller[h].ret.tag = "Success"
    /\ patches[DocOf(h)] = 1
    /\ poller[g].ret = RetErr(TimeoutMsg)
    /\ patches[DocOf(g)] = 0

====
